---- MODULE Spec2Model ----
(***************************************************************************)
(* Model of src/steam_controller.py: the Control latch (update_value), the *)
(* SteamController construction, and sample_handler, the raw-report        *)
(* callback that decodes one report and updates the 21 button and 5 axis   *)
(* controls.                                                               *)
(***************************************************************************)
EXTENDS Integers, Sequences, FiniteSets, TLC

(***************************************************************************)
(* Python values.  A value carries its Python type, because update_value   *)
(* behaves differently on iterables (tuples) and non-iterables (bool, int, *)
(* None).  v is the list of components, booleans written 0 / 1.            *)
(***************************************************************************)
None == [kind |-> "none", v |-> <<>>]

BoolVal(b) == [kind |-> "bool", v |-> <<IF b THEN 1 ELSE 0>>]

IntVal(n) == [kind |-> "int", v |-> <<n>>]

BoolTuple(s) == [kind |-> "bools", v |-> [i \in 1..Len(s) |-> IF s[i] THEN 1 ELSE 0]]

IntTuple(s) == [kind |-> "ints", v |-> s]

\* Python: iter(x) succeeds (any(x) does not raise TypeError)
Iterable(x) == x.kind \in {"bools", "ints"}

\* Python: any(x) for an iterable x
PyAny(x) == \E i \in 1..Len(x.v) : x.v[i] # 0

\* Python: bool(x); None is false, a number is its non-zeroness, a tuple its non-emptiness
Truthy(x) ==
    CASE x.kind = "none" -> FALSE
      [] x.kind \in {"bool", "int"} -> x.v[1] # 0
      [] OTHER -> Len(x.v) > 0

(***************************************************************************)
(* class Control                                                           *)
(***************************************************************************)
\* Control.__init__: both values None, no event
Control == [current_value |-> None, previous_value |-> None, event |-> FALSE]

\* a value any() or bool() takes for true, whichever applies to its type
NonZero(x) == IF Iterable(x) THEN PyAny(x) ELSE Truthy(x)

\* variant of is_true: the previous value is not looked at
is_true_current_only(current_value, previous_value) == NonZero(current_value)

\* variant of is_true: an event whenever the value changed
is_true_changed(current_value, previous_value) == current_value # previous_value

\* variant of is_true: an event only when use begins or ends
is_true_edge(current_value, previous_value) == NonZero(current_value) # NonZero(previous_value)

\* the try / except TypeError of update_value; `or` short-circuits, so
\* any(previous_value) is evaluated only when any(current_value) is false
is_true(current_value, previous_value) ==
    IF Iterable(current_value)
    THEN IF PyAny(current_value)
         THEN TRUE
         ELSE IF Iterable(previous_value)
              THEN PyAny(previous_value)
              ELSE Truthy(current_value) \/ Truthy(previous_value)
    ELSE Truthy(current_value) \/ Truthy(previous_value)

\* the two assignments of update_value
Shift(ctl, current_value) ==
    [ctl EXCEPT !.previous_value = ctl.current_value,
                !.current_value = current_value]

\* the guard of the event call of update_value, on the updated control
Fires(ctl) == is_true(ctl.current_value, ctl.previous_value) /\ ctl.event

(***************************************************************************)
(* class SteamController                                                   *)
(***************************************************************************)
buttons_names ==
    << "RightTrigger", "LeftTrigger", "RightBumper", "LeftBumper", "Y", "B",
       "X", "A", "LeftPad", "Back", "Guide", "Start", "LeftGrip", "RightGrip",
       "LeftPad_Click", "RightPad_Click", "LeftPad_Touch", "RightPad_Touch",
       "UNKNOWN0", "LeftStick_Click", "UNKNOWN1" >>

axes_names == << "LeftTrigger", "RightTrigger", "LeftStick", "LeftPad", "RightPad" >>

ButtonSet == {buttons_names[i] : i \in 1..Len(buttons_names)}

AxisSet == {axes_names[i] : i \in 1..Len(axes_names)}

Min(a, b) == IF a < b THEN a ELSE b

\* the current values an event sees when it is called
Seen(bs, as) ==
    [buttons |-> [n \in ButtonSet |-> bs[n].current_value],
     axes |-> [n \in AxisSet |-> as[n].current_value]]

\* self.buttons[button].update_value(value), the event call recorded in log
ButtonUpdate(st, button, value) ==
    LET ctl == Shift(st.buttons[button], value)
        bs == [st.buttons EXCEPT ![button] = ctl]
    IN  [buttons |-> bs,
         axes |-> st.axes,
         log |-> IF Fires(ctl)
                 THEN Append(st.log,
                        [dict |-> "buttons", name |-> button,
                         current_value |-> ctl.current_value,
                         previous_value |-> ctl.previous_value,
                         seen |-> Seen(bs, st.axes)])
                 ELSE st.log]

\* self.axes[axis].update_value(value), the event call recorded in log
AxisUpdate(st, axis, value) ==
    LET ctl == Shift(st.axes[axis], value)
        as == [st.axes EXCEPT ![axis] = ctl]
    IN  [buttons |-> st.buttons,
         axes |-> as,
         log |-> IF Fires(ctl)
                 THEN Append(st.log,
                        [dict |-> "axes", name |-> axis,
                         current_value |-> ctl.current_value,
                         previous_value |-> ctl.previous_value,
                         seen |-> Seen(st.buttons, as)])
                 ELSE st.log]

\* variant of ButtonsLoop: the buttons are walked from the last name to the first
RECURSIVE ButtonsLoop_reversed(_, _, _)
ButtonsLoop_reversed(st, values, i) ==
    LET n == Min(Len(buttons_names), Len(values))
    IN  IF i > n
        THEN st
        ELSE ButtonsLoop_reversed(
                 ButtonUpdate(st, buttons_names[n + 1 - i], values[n + 1 - i]), values, i + 1)

\* the loop of _update_buttons_values from position i on; zip stops at the shorter list
RECURSIVE ButtonsLoop(_, _, _)
ButtonsLoop(st, values, i) ==
    IF i > Min(Len(buttons_names), Len(values))
    THEN st
    ELSE ButtonsLoop(ButtonUpdate(st, buttons_names[i], values[i]), values, i + 1)

update_buttons_values(st, values) == ButtonsLoop(st, values, 1)

\* variant of AxesLoop: the axes are walked from the last name to the first
RECURSIVE AxesLoop_reversed(_, _, _)
AxesLoop_reversed(st, values, i) ==
    LET n == Min(Len(axes_names), Len(values))
    IN  IF i > n
        THEN st
        ELSE AxesLoop_reversed(
                 AxisUpdate(st, axes_names[n + 1 - i], values[n + 1 - i]), values, i + 1)

\* the loop of _update_axes_values from position i on
RECURSIVE AxesLoop(_, _, _)
AxesLoop(st, values, i) ==
    IF i > Min(Len(axes_names), Len(values))
    THEN st
    ELSE AxesLoop(AxisUpdate(st, axes_names[i], values[i]), values, i + 1)

update_axes_values(st, values) == AxesLoop(st, values, 1)

Repeat(x, n) == [i \in 1..n |-> x]

\* the list SteamController.__init__ hands to _update_buttons_values
InitButtonsValues ==
    Repeat(BoolVal(FALSE), 8) \o << BoolTuple(Repeat(FALSE, 4)) >> \o Repeat(BoolVal(FALSE), 8)

\* the list SteamController.__init__ hands to _update_axes_values
InitAxesValues == << IntVal(0), IntVal(0), IntTuple(<<0, 0>>), IntTuple(<<0, 0>>), IntTuple(<<0, 0>>) >>

\* SteamController.__init__
Constructed ==
    LET st0 == [buttons |-> [n \in ButtonSet |-> Control],
                axes |-> [n \in AxisSet |-> Control],
                log |-> <<>>]
    IN  update_axes_values(update_buttons_values(st0, InitButtonsValues), InitAxesValues)

(***************************************************************************)
(* Decoding                                                                *)
(***************************************************************************)
\* variant of to_bool_array: most significant bit first
to_bool_array_msb_first(byte) == [i \in 1..8 |-> BoolVal((byte \div (2 ^ (8 - i))) % 2 = 1)]

\* to_bool_array: [bool(byte & (1 << i)) for i in range(8)]
to_bool_array(byte) == [i \in 1..8 |-> BoolVal((byte \div (2 ^ (i - 1))) % 2 = 1)]

\* variant of to_int16: the two bytes read as an unsigned number
to_int16_unsigned(low, high) == low + 256 * high

\* to_int16: int.from_bytes(bytes([low, high]), byteorder='little', signed=True)
to_int16(low, high) ==
    LET u == low + 256 * high
    IN  IF u >= 32768 THEN u - 65536 ELSE u

\* variant of At: the offset counted from 1
At_from_one(data, i) == data[i]

\* data[i] of a Python list, i counted from 0
At(data, i) == data[i + 1]

\* tuple(to_int16(data[i], data[i+1]) for i in range(first, first + 4, 2))
Pair(data, first) ==
    IntTuple(<< to_int16(At(data, first), At(data, first + 1)),
                to_int16(At(data, first + 2), At(data, first + 3)) >>)

\* variant of current_buttons_vals: the tuple taken one bit late, [9:13]
current_buttons_vals_late_slice(data) ==
    LET raw == to_bool_array(At(data, 9)) \o to_bool_array(At(data, 10))
                 \o to_bool_array(At(data, 11))
    IN  SubSeq(raw, 1, 9)
          \o << [kind |-> "bools", v |-> [i \in 1..4 |-> raw[9 + i].v[1]]] >>
          \o SubSeq(raw, 14, 24)

\* current_buttons_vals of sample_handler, after the slice-and-tuple line
current_buttons_vals(data) ==
    LET raw == to_bool_array(At(data, 9)) \o to_bool_array(At(data, 10))
                 \o to_bool_array(At(data, 11))
    IN  SubSeq(raw, 1, 8)
          \o << [kind |-> "bools", v |-> [i \in 1..4 |-> raw[8 + i].v[1]]] >>
          \o SubSeq(raw, 13, 24)

\* variant of LeftPadTouched: the touch value of the report before
LeftPadTouched_previous(st) == st.buttons["LeftPad_Touch"].previous_value = BoolVal(TRUE)

\* `self.buttons['LeftPad_Touch'].current_value is True`
LeftPadTouched(st) == st.buttons["LeftPad_Touch"].current_value = BoolVal(TRUE)

\* variant of current_axes_vals: the right pad read from the shared bytes 17..20
current_axes_vals_shared_pad(st, data) ==
    << IntVal(At(data, 12)), IntVal(At(data, 13)) >>
      \o (IF LeftPadTouched(st)
          THEN << IntTuple(<<0, 0>>), Pair(data, 17) >>
          ELSE << Pair(data, 17), IntTuple(<<0, 0>>) >>)
      \o << Pair(data, 17) >>

\* current_axes_vals of sample_handler, read from the controller after the buttons' update
current_axes_vals(st, data) ==
    << IntVal(At(data, 12)), IntVal(At(data, 13)) >>
      \o (IF LeftPadTouched(st)
          THEN << IntTuple(<<0, 0>>), Pair(data, 17) >>
          ELSE << Pair(data, 17), IntTuple(<<0, 0>>) >>)
      \o << Pair(data, 21) >>

\* variant of IsActive: a woken report is decoded too
IsActive_or_woken(data) == At(data, 3) = 1 \/ At(data, 3) = 3

\* variant of Passes: every type but the active one passes
Passes_any(data) == At(data, 3) # 1

\* `if data[3] == 1`
IsActive(data) == At(data, 3) = 1

\* the `elif data[3] == 3` and `elif data[3] == 4` branches, both `pass`
Passes(data) == At(data, 3) = 3 \/ At(data, 3) = 4

\* sample_handler: the controller after the call and how the call ended.
\* data[i] raises IndexError when i >= len(data); type 0 passes the first
\* `if` and then falls through the second if / elif chain to the assert.
sample_handler(st, data) ==
    IF Len(data) <= 3
    THEN [st |-> st, outcome |-> "IndexError"]
    ELSE IF IsActive(data)
    THEN IF Len(data) <= 11
         THEN [st |-> st, outcome |-> "IndexError"]
         ELSE LET st1 == update_buttons_values(st, current_buttons_vals(data))
              IN  IF Len(data) <= 24
                  THEN [st |-> st1, outcome |-> "IndexError"]
                  ELSE [st |-> update_axes_values(st1, current_axes_vals(st1, data)),
                        outcome |-> "ok"]
    ELSE IF Passes(data)
    THEN [st |-> st, outcome |-> "ok"]
    ELSE [st |-> st, outcome |-> "AssertionError"]

(***************************************************************************)
(* Reports the device layer hands to sample_handler                        *)
(***************************************************************************)
\* a report of len bytes: type at offset 3, button bytes at 9..11, trigger
\* bytes at 12..13, coordinate bytes at 17..20 and 21..24, zero elsewhere
Report(len, type, b9, b10, b11, t12, t13, c17, c21) ==
    [k \in 1..len |->
        LET i == k - 1
        IN  CASE i = 3 -> type
              [] i = 9 -> b9
              [] i = 10 -> b10
              [] i = 11 -> b11
              [] i = 12 -> t12
              [] i = 13 -> t13
              [] i \in 17..20 -> c17[i - 16]
              [] i \in 21..24 -> c21[i - 20]
              [] OTHER -> 0]

Zero4 == <<0, 0, 0, 0>>

\* (1, 0)
CoordA == <<1, 0, 0, 0>>

\* (-1, -32768)
CoordB == <<255, 255, 0, 128>>

\* active reports of full length: nothing in use; the button of bit 0; the
\* last bit of the 4-tuple and the first bit after it; the pad touched, with
\* a pair; the stick, with the same and with another pair; a button the
\* constructor does not seed; and buttons, triggers and both pairs in use
ActiveReports ==
    { Report(25, 1, 0, 0, 0, 0, 0, Zero4, Zero4),
      Report(25, 1, 1, 0, 0, 0, 0, Zero4, Zero4),
      Report(25, 1, 0, 8, 0, 0, 0, Zero4, Zero4),
      Report(25, 1, 0, 16, 0, 0, 0, Zero4, Zero4),
      Report(25, 1, 0, 0, 8, 0, 0, CoordA, Zero4),
      Report(25, 1, 0, 0, 0, 0, 0, CoordA, Zero4),
      Report(25, 1, 0, 0, 0, 0, 0, CoordB, Zero4),
      Report(25, 1, 0, 0, 16, 0, 0, Zero4, Zero4),
      Report(25, 1, 1, 1, 8, 255, 1, CoordA, CoordB) }

\* reports of the other types, with a payload
OtherReports ==
    { Report(25, 0, 1, 1, 8, 255, 1, CoordA, CoordB),
      Report(25, 3, 1, 1, 8, 255, 1, CoordA, CoordB),
      Report(25, 4, 1, 1, 8, 255, 1, CoordA, CoordB),
      Report(25, 2, 1, 1, 8, 255, 1, CoordA, CoordB) }

\* reports shorter than the 25 bytes sample_handler reads
ShortReports ==
    { Report(3, 0, 0, 0, 0, 0, 0, Zero4, Zero4),
      Report(4, 3, 0, 0, 0, 0, 0, Zero4, Zero4),
      Report(12, 1, 1, 0, 0, 0, 0, Zero4, Zero4),
      Report(24, 1, 0, 0, 8, 0, 0, CoordA, Zero4) }

Reports == ActiveReports \cup OtherReports \cup ShortReports

\* button, trigger and coordinate bytes of a full-length report are all zero
ZeroPayload(data) == \A i \in (9..13) \cup (17..24) : At(data, i) = 0

\* event assignments made by the constructor of a subclass: the example of
\* __main__ (RightTrigger button, LeftTrigger axis) and an event on every control
EventConfigs ==
    { [buttons |-> {"RightTrigger"}, axes |-> {"LeftTrigger"}],
      [buttons |-> ButtonSet, axes |-> AxisSet] }

\* number of reports handed to sample_handler in one run
MaxReports == 3

(***************************************************************************)
(* State                                                                   *)
(***************************************************************************)
VARIABLES
    buttons,    \* self.buttons: name -> Control
    axes,       \* self.axes: name -> Control
    log,        \* the event calls made by the last sample_handler call, in order
    calls,      \* every event call since construction: <<report number, dict, name, current, previous>>
    last,       \* the last report, how its handling ended, and the controls before it
    idle,       \* every report so far was a fully handled active report with an all-zero payload
    allActive,  \* every report so far was a fully handled active report
    nReports,   \* number of reports handled so far
    pc,         \* where the call of open() stands
    is_open,    \* self._is_open
    handle,     \* the HID device open() works on: "absent", "found", "open", "closed"
    plugged,    \* what device.is_plugged() answers
    arg,        \* the static method under call and its arguments
    result      \* <<>> before the static method returns, <<its return value>> after

vars == <<buttons, axes, log, calls, last, idle, allActive, nReports,
          pc, is_open, handle, plugged, arg, result>>

\* the variables of the report path
controller == <<buttons, axes, log, calls, last, idle, allActive, nReports>>

\* the variables of open() and close()
lifecycle == <<pc, is_open, handle, plugged>>

\* the variables of a static method call
static == <<arg, result>>

\* no static method is under call
NoCall == [f |-> "none", a |-> <<>>]

\* the controller __main__ builds: SteamController.__init__ and then the event
\* assignments of the subclass constructor, for one configuration
Configured(cfg) ==
    [buttons |-> [n \in ButtonSet |-> [Constructed.buttons[n] EXCEPT !.event = (n \in cfg.buttons)]],
     axes |-> [n \in AxisSet |-> [Constructed.axes[n] EXCEPT !.event = (n \in cfg.axes)]]]

Init ==
    /\ \E cfg \in EventConfigs :
         /\ buttons = Configured(cfg).buttons
         /\ axes = Configured(cfg).axes
         /\ last = [data |-> <<>>, outcome |-> "none", before |-> Configured(cfg)]
    /\ log = Constructed.log
    /\ calls = <<>>
    /\ idle = TRUE
    /\ allActive = TRUE
    /\ nReports = 0
    /\ pc = "idle"
    /\ is_open = FALSE
    /\ handle = "absent"
    /\ plugged = TRUE
    /\ arg = NoCall
    /\ result = <<>>

\* the device layer calls sample_handler(data)
SampleHandler(data) ==
    /\ nReports < MaxReports
    /\ LET r == sample_handler([buttons |-> buttons, axes |-> axes, log |-> <<>>], data)
       IN  /\ buttons' = r.st.buttons
           /\ axes' = r.st.axes
           /\ log' = r.st.log
           /\ calls' = calls \o [i \in 1..Len(r.st.log) |->
                                  << nReports + 1, r.st.log[i].dict, r.st.log[i].name,
                                     r.st.log[i].current_value, r.st.log[i].previous_value >>]
           /\ last' = [data |-> data, outcome |-> r.outcome,
                       before |-> [buttons |-> buttons, axes |-> axes]]
           /\ allActive' = (allActive /\ r.outcome = "ok" /\ At(data, 3) = 1)
           /\ idle' = (idle /\ r.outcome = "ok" /\ At(data, 3) = 1 /\ ZeroPayload(data))
    /\ nReports' = nReports + 1
    /\ UNCHANGED <<lifecycle, static>>

Next == \E data \in Reports : SampleHandler(data)

Spec == Init /\ [][Next]_vars

(***************************************************************************)
(* Vocabulary of the properties                                            *)
(***************************************************************************)
Latches == ({"buttons"} \X ButtonSet) \cup ({"axes"} \X AxisSet)

Now == [buttons |-> buttons, axes |-> axes]

ButtonIndex(n) == CHOOSE i \in 1..Len(buttons_names) : buttons_names[i] = n

AxisIndex(n) == CHOOSE i \in 1..Len(axes_names) : axes_names[i] = n

\* position of a control in the order buttons-then-axes
Position(d, n) == IF d = "buttons" THEN ButtonIndex(n) ELSE Len(buttons_names) + AxisIndex(n)

\* the documented resting value of a control, by its shape
Rest(d, n) ==
    IF d = "buttons"
    THEN IF n = "LeftPad" THEN BoolTuple(<<FALSE, FALSE, FALSE, FALSE>>) ELSE BoolVal(FALSE)
    ELSE IF n \in {"LeftTrigger", "RightTrigger"} THEN IntVal(0) ELSE IntTuple(<<0, 0>>)

\* true / non-zero for a boolean or scalar, a true / non-zero component for a tuple
NonResting(x) ==
    /\ x.kind # "none"
    /\ \E i \in 1..Len(x.v) : x.v[i] # 0

\* the last report was an active report handled to the end
FullActive == last.outcome = "ok" /\ At(last.data, 3) = 1

\* the last report had a readable type byte
Typed == last.outcome # "none" /\ Len(last.data) >= 4

LogOf(d, n) == SelectSeq(log, LAMBDA e : e.dict = d /\ e.name = n)

CallsOf(d, n) == SelectSeq(calls, LAMBDA c : c[2] = d /\ c[3] = n)

AllEvents == (\A n \in ButtonSet : buttons[n].event) /\ (\A n \in AxisSet : axes[n].event)

\* the value the last report carries for a control
Decoded(d, n) ==
    IF d = "buttons"
    THEN current_buttons_vals(last.data)[ButtonIndex(n)]
    ELSE current_axes_vals(Now, last.data)[AxisIndex(n)]

\* bit 3 of byte 11, the pad-touch bit of the last report
TouchBit == (At(last.data, 11) \div 8) % 2 = 1

(***************************************************************************)
(* C1..C10                                                                 *)
(***************************************************************************)
\* C1: update_value(v) sets previous to the old current and current to v, and
\* then calls the event exactly once, with (current, previous), if and only if
\* an event is registered and current or previous is non-resting; otherwise
\* the event is not called.
C1_UpdateValueContract ==
    FullActive =>
      \A l \in Latches :
        LET c == Now[l[1]][l[2]]
            es == LogOf(l[1], l[2])
        IN  /\ c.previous_value = last.before[l[1]][l[2]].current_value
            /\ c.current_value = Decoded(l[1], l[2])
            /\ Len(es) = IF c.event /\ (NonResting(c.current_value) \/ NonResting(c.previous_value))
                         THEN 1 ELSE 0
            /\ \A i \in 1..Len(es) :
                 /\ es[i].current_value = c.current_value
                 /\ es[i].previous_value = c.previous_value

\* a release is reported (current resting, previous not) while a control without event is in use
C1_Witness ==
    /\ FullActive
    /\ \E i \in 1..Len(log) :
         ~NonResting(log[i].current_value) /\ NonResting(log[i].previous_value)
    /\ \E l \in Latches :
         ~Now[l[1]][l[2]].event /\ NonResting(Now[l[1]][l[2]].current_value)

\* C2: after an active report, if the pad-touch bit of that report is set the
\* LeftPad axis holds the pair of bytes 17-20 and the LeftStick axis holds (0,0);
\* if it is clear, LeftStick holds the pair and LeftPad holds (0,0).
C2_PadOrStick ==
    FullActive =>
      IF TouchBit
      THEN /\ axes["LeftPad"].current_value = Pair(last.data, 17)
           /\ axes["LeftStick"].current_value = IntTuple(<<0, 0>>)
      ELSE /\ axes["LeftStick"].current_value = Pair(last.data, 17)
           /\ axes["LeftPad"].current_value = IntTuple(<<0, 0>>)

\* the report before had the pad touched, this one has not, and the pair goes to the stick
C2_Witness ==
    /\ FullActive
    /\ ~TouchBit
    /\ last.before.buttons["LeftPad_Touch"].current_value = BoolVal(TRUE)
    /\ Pair(last.data, 17) # IntTuple(<<0, 0>>)
    /\ axes["LeftStick"].current_value = Pair(last.data, 17)

\* C3: a report of type 0, 3 or 4 leaves current and previous value of all 26
\* controls unchanged and calls no event.
C3_InactiveTypesChangeNothing ==
    (Typed /\ At(last.data, 3) \in {0, 3, 4}) =>
      /\ Now = last.before
      /\ log = <<>>

\* a report of type 0, 3 or 4 with a payload arrives while every control has an event
C3_Witness ==
    /\ Typed
    /\ At(last.data, 3) \in {0, 3, 4}
    /\ Len(last.data) = 25
    /\ ~ZeroPayload(last.data)
    /\ AllEvents

\* C4: a report whose type is none of 0, 1, 3, 4 ends in the unknown-state
\* failure, changes no control and calls no event.
C4_UnknownTypeFails ==
    (Typed /\ At(last.data, 3) \notin {0, 1, 3, 4}) =>
      /\ last.outcome = "AssertionError"
      /\ Now = last.before
      /\ log = <<>>

\* a report of an unknown type with a payload arrives while every control has an event
C4_Witness ==
    /\ Typed
    /\ At(last.data, 3) \notin {0, 1, 3, 4}
    /\ ~ZeroPayload(last.data)
    /\ AllEvents
    /\ last.outcome = "AssertionError"

\* C5: a well-formed report of type 0, 3 or 4 completes normally, and the
\* unknown-state failure is raised only for types outside {0, 1, 3, 4}.
C5_FourTypesRecognized ==
    /\ (Typed /\ Len(last.data) >= 25 /\ At(last.data, 3) \in {0, 3, 4}) => last.outcome = "ok"
    /\ last.outcome = "AssertionError" => At(last.data, 3) \notin {0, 1, 3, 4}

\* C6: from construction, with an event on every control, any number of
\* active reports with an all-zero payload calls no event at all.
C6_IdleReportsCallNothing == (idle /\ AllEvents) => calls = <<>>

\* two all-zero active reports have been handled with an event on every control
C6_Witness == idle /\ AllEvents /\ nReports >= 2 /\ calls = <<>>

\* a control that was made non-resting by the first report after construction
\* and returned to rest by the second
PressedThenReleased(d, n) ==
    /\ nReports = 2
    /\ Now[d][n].event
    /\ NonResting(Now[d][n].previous_value)
    /\ Now[d][n].current_value = Rest(d, n)

\* C7: for each control with an event, a report that makes it non-resting and
\* a report that returns it to rest call the event exactly twice, first with
\* (non-resting, resting), then with (resting, non-resting).
C7_PressReleaseTwoCalls ==
    \A l \in Latches :
      PressedThenReleased(l[1], l[2]) =>
        CallsOf(l[1], l[2]) =
          << <<1, l[1], l[2], Now[l[1]][l[2]].previous_value, Rest(l[1], l[2])>>,
             <<2, l[1], l[2], Rest(l[1], l[2]), Now[l[1]][l[2]].previous_value>> >>

\* the report at which the use of a control that has just ended began: the
\* last call with a non-resting current and a resting (or unset) previous value
BeginOf(d, n) ==
    LET cs == CallsOf(d, n)
        B == {j \in 1..Len(cs) : NonResting(cs[j][4]) /\ ~NonResting(cs[j][5])}
    IN  IF B = {} THEN 0 ELSE cs[CHOOSE j \in B : \A k \in B : k <= j][1]

\* number of event calls of a control from report b on
CallsSince(d, n, b) == Len(SelectSeq(CallsOf(d, n), LAMBDA c : c[1] >= b))

\* the last report, in a run of active reports, returned a control with an event to rest
UseEnded(d, n) ==
    /\ allActive
    /\ nReports >= 1
    /\ Now[d][n].event
    /\ NonResting(Now[d][n].previous_value)
    /\ ~NonResting(Now[d][n].current_value)

\* C8 as stated: a control that becomes non-resting, stays so for k >= 1
\* updates and returns to rest has its event called exactly twice, whatever k.
C8_TwoCallsWhateverK ==
    \A l \in Latches :
      UseEnded(l[1], l[2]) =>
        /\ BeginOf(l[1], l[2]) >= 1
        /\ CallsSince(l[1], l[2], BeginOf(l[1], l[2])) = 2

\* C8 amended: the event is called at every one of the k updates that leave
\* the control non-resting and once more at the update that returns it to
\* rest, k + 1 calls in all, one per report from the beginning to the end.
C8_OneCallPerUpdate ==
    \A l \in Latches :
      UseEnded(l[1], l[2]) =>
        LET b == BeginOf(l[1], l[2])
        IN  /\ b >= 1
            /\ CallsSince(l[1], l[2], b) = (nReports - b) + 1
            /\ \A m \in b..nReports : \E i \in 1..Len(calls) :
                 calls[i][1] = m /\ calls[i][2] = l[1] /\ calls[i][3] = l[2]

\* a control stayed non-resting for two updates and has just returned to rest
C8_Witness ==
    \E l \in Latches :
      /\ UseEnded(l[1], l[2])
      /\ BeginOf(l[1], l[2]) >= 1
      /\ nReports - BeginOf(l[1], l[2]) = 2
      /\ CallsSince(l[1], l[2], BeginOf(l[1], l[2])) = 3

\* C9: an active report updates all 26 controls, the 21 buttons in the order
\* of their names and then the 5 axes in the order of theirs: an event sees
\* the new value of every control up to its own and the value of the
\* preceding update of every later control.
C9_FixedUpdateOrder ==
    FullActive =>
      /\ \A l \in Latches :
           /\ Now[l[1]][l[2]].previous_value = last.before[l[1]][l[2]].current_value
           /\ Now[l[1]][l[2]].current_value = Decoded(l[1], l[2])
      /\ \A i \in 1..Len(log) :
           /\ \A l \in Latches :
                log[i].seen[l[1]][l[2]] =
                  IF Position(l[1], l[2]) <= Position(log[i].dict, log[i].name)
                  THEN Now[l[1]][l[2]].current_value
                  ELSE last.before[l[1]][l[2]].current_value
           /\ \A j \in 1..Len(log) :
                i < j => Position(log[i].dict, log[i].name) < Position(log[j].dict, log[j].name)

\* a button event and an axis event ran while a later button and a later axis still changed
C9_Witness ==
    /\ FullActive
    /\ \E i, j \in 1..Len(log) :
         /\ log[i].dict = "buttons"
         /\ log[j].dict = "axes"
         /\ \E n \in ButtonSet :
              /\ ButtonIndex(n) > ButtonIndex(log[i].name)
              /\ buttons[n].current_value # last.before.buttons[n].current_value
         /\ \E n \in AxisSet :
              /\ AxisIndex(n) > AxisIndex(log[j].name)
              /\ axes[n].current_value # last.before.axes[n].current_value

\* C10: right after construction every control has its current and its
\* previous value equal to the resting value of its shape; none is unset.
C10_ConstructedAtRest ==
    nReports = 0 =>
      \A l \in Latches :
        /\ Now[l[1]][l[2]].current_value = Rest(l[1], l[2])
        /\ Now[l[1]][l[2]].previous_value = Rest(l[1], l[2])

(***************************************************************************)
(* The decoding functions on their own: sample_handler's button decoding   *)
(* (three button bytes to 21 button values) and the static methods         *)
(* to_bool_array and to_int16, each called once on an argument drawn from  *)
(* its whole domain.                                                       *)
(***************************************************************************)
\* the values of one byte of a report
Bytes == 0 .. 255

\* button bytes: no bit, each single bit, all bits, and two mixed patterns
ByteSamples == {0, 1, 2, 4, 8, 16, 32, 64, 128, 255, 165, 90}

StaticCalls ==
    { [f |-> "to_bool_array", a |-> <<b>>] : b \in Bytes }
      \cup { [f |-> "to_int16", a |-> <<low, high>>] : low \in Bytes, high \in Bytes }
      \cup { [f |-> "current_buttons_vals", a |-> <<b9, b10, b11>>] :
                b9 \in ByteSamples, b10 \in ByteSamples, b11 \in ByteSamples }

\* no controller is needed to call a static method
StaticInit ==
    /\ arg \in StaticCalls
    /\ result = <<>>
    /\ buttons = <<>>
    /\ axes = <<>>
    /\ log = <<>>
    /\ calls = <<>>
    /\ last = [data |-> <<>>, outcome |-> "none"]
    /\ idle = TRUE
    /\ allActive = TRUE
    /\ nReports = 0
    /\ pc = "idle"
    /\ is_open = FALSE
    /\ handle = "absent"
    /\ plugged = TRUE

\* SteamController.to_bool_array(byte)
ToBoolArray ==
    /\ arg.f = "to_bool_array"
    /\ result = <<>>
    /\ result' = << to_bool_array(arg.a[1]) >>
    /\ UNCHANGED <<controller, lifecycle, arg>>

\* SteamController.to_int16(low, high)
ToInt16 ==
    /\ arg.f = "to_int16"
    /\ result = <<>>
    /\ result' = << to_int16(arg.a[1], arg.a[2]) >>
    /\ UNCHANGED <<controller, lifecycle, arg>>

\* the button decoding of sample_handler on an active report with these
\* button bytes
DecodeButtons ==
    /\ arg.f = "current_buttons_vals"
    /\ result = <<>>
    /\ result' = << current_buttons_vals(
                      Report(25, 1, arg.a[1], arg.a[2], arg.a[3], 0, 0, Zero4, Zero4)) >>
    /\ UNCHANGED <<controller, lifecycle, arg>>

StaticNext == ToBoolArray \/ ToInt16 \/ DecodeButtons

SpecStatic == StaticInit /\ [][StaticNext]_vars

\* the static method under call has returned
Returned(f) == arg.f = f /\ result # <<>>

\* bit k (0 = least significant) of the 24 button bits, bytes 9, 10, 11 in order
RawBit(a, k) == (a[(k \div 8) + 1] \div (2 ^ (k % 8))) % 2 = 1

\* C11: decoding an active report gives exactly 21 button slots: slot i is
\* raw bit i for i in 0..7, slot 8 is the 4-tuple of raw bits 8..11, and slot
\* j is raw bit j + 3 for j in 9..20 (so every raw bit is in exactly one slot)
C11_ButtonSlots ==
    Returned("current_buttons_vals") =>
        LET out == result[1]
        IN  /\ Len(out) = 21
            /\ Len(out) = Len(buttons_names)
            /\ \A i \in 0..7 : out[i + 1] = BoolVal(RawBit(arg.a, i))
            /\ out[9] = BoolTuple(<< RawBit(arg.a, 8), RawBit(arg.a, 9),
                                     RawBit(arg.a, 10), RawBit(arg.a, 11) >>)
            /\ \A j \in 9..20 : out[j + 1] = BoolVal(RawBit(arg.a, j + 3))

\* bits 7, 8, 11 and 12 clear and set around the borders of the tuple
C11_Witness ==
    /\ Returned("current_buttons_vals")
    /\ arg.a = <<128, 165, 90>>

\* C15: to_bool_array(b) is exactly 8 booleans, element i being bit i of b:
\* ((b >> i) & 1) == 1; equivalently the elements are the binary digits of b,
\* least significant first
C15_ToBoolArray ==
    Returned("to_bool_array") =>
        LET out == result[1]
            b == arg.a[1]
            digit(i) == IF out[i + 1] = BoolVal(TRUE) THEN 1 ELSE 0
        IN  /\ Len(out) = 8
            /\ \A i \in 0..7 : out[i + 1] \in {BoolVal(TRUE), BoolVal(FALSE)}
            /\ \A i \in 0..7 : (out[i + 1] = BoolVal(TRUE)) <=> ((b \div (2 ^ i)) % 2 = 1)
            /\ b = digit(0) + 2 * digit(1) + 4 * digit(2) + 8 * digit(3)
                     + 16 * digit(4) + 32 * digit(5) + 64 * digit(6) + 128 * digit(7)

C15_Witness ==
    /\ Returned("to_bool_array")
    /\ arg.a = <<165>>
    /\ result[1][1] = BoolVal(TRUE)
    /\ result[1][2] = BoolVal(FALSE)

\* C16: to_int16(low, high) is low + 256 * high when high < 128 and that
\* minus 65536 otherwise; it lies in -32768..32767; (255, 255) gives -1,
\* (0, 128) gives -32768, (255, 127) gives 32767; and distinct pairs give
\* distinct results, since the pair is recovered from the result
C16_ToInt16 ==
    Returned("to_int16") =>
        LET low == arg.a[1]
            high == arg.a[2]
            r == result[1]
        IN  /\ r = (IF high < 128 THEN low + 256 * high ELSE low + 256 * high - 65536)
            /\ r \in -32768 .. 32767
            /\ (arg.a = <<255, 255>>) => (r = -1)
            /\ (arg.a = <<0, 128>>) => (r = -32768)
            /\ (arg.a = <<255, 127>>) => (r = 32767)
            /\ (IF r < 0 THEN r + 65536 ELSE r) % 256 = low
            /\ (IF r < 0 THEN r + 65536 ELSE r) \div 256 = high

C16_Witness ==
    /\ Returned("to_int16")
    /\ arg.a = <<0, 128>>
    /\ result = << -32768 >>

(***************************************************************************)
(* C12..C14, C17..C19: the controller under a sequence of reports          *)
(***************************************************************************)
\* the signed 16-bit number in bytes i (low) and i + 1 (high) of the last report
Signed(i) ==
    At(last.data, i) + 256 * At(last.data, i + 1)
      - (IF At(last.data, i + 1) >= 128 THEN 65536 ELSE 0)

\* C12: after every active report the LeftTrigger axis is byte 12 and the
\* RightTrigger axis byte 13, verbatim in 0..255, and the RightPad axis is the
\* pair of the signed numbers in bytes 21-22 and 23-24, whatever the pad-touch
\* bit and bytes 17..20 are
C12_TriggersAndRightPad ==
    FullActive =>
        /\ axes["LeftTrigger"].current_value = IntVal(At(last.data, 12))
        /\ axes["RightTrigger"].current_value = IntVal(At(last.data, 13))
        /\ axes["LeftTrigger"].current_value.v[1] \in 0..255
        /\ axes["RightTrigger"].current_value.v[1] \in 0..255
        /\ axes["RightPad"].current_value = IntTuple(<< Signed(21), Signed(23) >>)

\* pad touched, bytes 17..20 and 21..24 differ, both triggers non-zero
C12_Witness ==
    /\ FullActive
    /\ TouchBit
    /\ axes["LeftTrigger"].current_value = IntVal(255)
    /\ axes["RightTrigger"].current_value = IntVal(1)
    /\ axes["LeftPad"].current_value = IntTuple(<<1, 0>>)
    /\ axes["RightPad"].current_value = IntTuple(<< -1, -32768 >>)

\* the active report whose only non-zero payload is byte 9 = 1
OnlyBit0 == Report(25, 1, 1, 0, 0, 0, 0, Zero4, Zero4)

\* C13: on a fresh controller the active report with byte 9 = 1 and every
\* other payload byte zero leaves exactly the slot-0 button (RightTrigger)
\* current true, every other button and axis current at its resting value, and
\* invokes no observer but the slot-0 button's
C13_SingleButton ==
    (nReports = 1 /\ last.data = OnlyBit0) =>
        /\ last.outcome = "ok"
        /\ buttons_names[1] = "RightTrigger"
        /\ buttons["RightTrigger"].current_value = BoolVal(TRUE)
        /\ \A l \in Latches \ {<<"buttons", "RightTrigger">>} :
              Now[l[1]][l[2]].current_value = Rest(l[1], l[2])
        /\ \A i \in 1..Len(log) : log[i].dict = "buttons" /\ log[i].name = "RightTrigger"
        /\ buttons["RightTrigger"].event =>
              /\ Len(log) = 1
              /\ log[1].current_value = BoolVal(TRUE)

C13_Witness ==
    /\ nReports = 1
    /\ last.data = OnlyBit0
    /\ AllEvents
    /\ Len(log) = 1
    /\ buttons["RightTrigger"].current_value = BoolVal(TRUE)

\* C14: a report shorter than 25 bytes (one too short for the type byte
\* included) is rejected with the malformed-report failure
C14_ShortReportsRejected ==
    (last.outcome # "none" /\ Len(last.data) < 25) => last.outcome = "MalformedReport"

LeftPadNonZero == NonResting(axes["LeftPad"].current_value)

LeftStickNonZero == NonResting(axes["LeftStick"].current_value)

\* C17: in every state from the first active report on (and before it, where
\* both axes rest) at most one of the LeftStick and LeftPad axes is non-zero,
\* a non-zero LeftPad axis comes with the LeftPad_Touch button true and a
\* non-zero LeftStick axis with the LeftPad_Touch button false
C17_PadStickExclusive ==
    /\ ~(LeftPadNonZero /\ LeftStickNonZero)
    /\ LeftPadNonZero => buttons["LeftPad_Touch"].current_value = BoolVal(TRUE)
    /\ LeftStickNonZero => buttons["LeftPad_Touch"].current_value = BoolVal(FALSE)

\* C18: when the handling of a report ends in failure, every control has the
\* current and previous value it had before the report and no event was called
C18_AllOrNothing ==
    (last.outcome \in {"IndexError", "AssertionError"}) =>
        /\ Now = last.before
        /\ log = <<>>

\* the axis that takes the coordinates of bytes 17..20 of the last report,
\* and the one that gives them up
Gaining == IF TouchBit THEN "LeftPad" ELSE "LeftStick"

Losing == IF TouchBit THEN "LeftStick" ELSE "LeftPad"

\* the last two reports were active and handled to the end (as was every
\* report before them), both carried a non-zero pair in bytes 17..20, and
\* their pad-touch bits differ: the touch button and the axis holding the
\* pair before the last report are those of the report before it
HandOver ==
    /\ nReports >= 2
    /\ allActive
    /\ AllEvents
    /\ Signed(17) # 0 \/ Signed(19) # 0
    /\ last.before.buttons["LeftPad_Touch"].current_value = BoolVal(~TouchBit)
    /\ NonResting(last.before.axes[Losing].current_value)

\* position in the log of the only call of a control's event
CallAt(d, n) == CHOOSE i \in 1..Len(log) : log[i].dict = d /\ log[i].name = n

\* C19: when two consecutive active reports both carry a non-zero pair in
\* bytes 17..20 and differ in the pad-touch bit, the second report calls the
\* event of the axis losing the pair exactly once with ((0, 0), its previous
\* pair) and the event of the axis gaining it exactly once with (the new pair,
\* (0, 0)); the LeftStick event is called before the LeftPad event and the
\* LeftPad_Touch button event before both
C19_HandOver ==
    HandOver =>
        /\ Len(LogOf("axes", Losing)) = 1
        /\ LogOf("axes", Losing)[1].current_value = IntTuple(<<0, 0>>)
        /\ LogOf("axes", Losing)[1].previous_value = last.before.axes[Losing].current_value
        /\ Len(LogOf("axes", Gaining)) = 1
        /\ LogOf("axes", Gaining)[1].current_value = IntTuple(<< Signed(17), Signed(19) >>)
        /\ LogOf("axes", Gaining)[1].previous_value = IntTuple(<<0, 0>>)
        /\ Len(LogOf("buttons", "LeftPad_Touch")) = 1
        /\ CallAt("buttons", "LeftPad_Touch") < CallAt("axes", "LeftStick")
        /\ CallAt("axes", "LeftStick") < CallAt("axes", "LeftPad")

\* pad (1, 0) handed over to the stick as (-1, -32768)
C19_Witness ==
    /\ HandOver
    /\ ~TouchBit
    /\ last.before.axes["LeftPad"].current_value = IntTuple(<<1, 0>>)
    /\ axes["LeftStick"].current_value = IntTuple(<< -1, -32768 >>)
    /\ Len(LogOf("axes", "LeftPad")) = 1

(***************************************************************************)
(* open() and close().  open() runs in the caller's thread; close() and    *)
(* the raw data handler run whenever another thread or the device layer    *)
(* calls them.  pc is the line open() stands at.                           *)
(***************************************************************************)
\* most devices get_devices() returns
MaxDevices == 2

\* the instance ids of all_devices: interface 0 or interface 1 of a controller
DeviceLists ==
    UNION { [1..n -> {"MI_00", "MI_01"}] : n \in 0..MaxDevices }

\* the for / else loop: some device of the list has 'MI_01' in its instance id
HasInterface1(all_devices) == \E i \in 1..Len(all_devices) : all_devices[i] = "MI_01"

\* the reports the device layer delivers while the controller is open
OpenReports ==
    { OnlyBit0,
      Report(25, 1, 0, 0, 0, 0, 0, Zero4, Zero4),
      Report(25, 3, 0, 0, 0, 0, 0, Zero4, Zero4) }

\* controller.open() is called
Open ==
    /\ pc = "idle"
    /\ pc' = "get_devices"
    /\ UNCHANGED <<controller, static, is_open, handle, plugged>>

\* get_devices() and the for / else loop: break at the interface-1 device, or
\* raise IOError when there is none
GetDevices ==
    /\ pc = "get_devices"
    /\ \E all_devices \in DeviceLists :
         IF HasInterface1(all_devices)
         THEN pc' = "device.open" /\ handle' = "found"
         ELSE pc' = "IOError" /\ handle' = handle
    /\ UNCHANGED <<controller, static, is_open, plugged>>

\* try: device.open(), which opens the device or raises
DeviceOpen ==
    /\ pc = "device.open"
    /\ \/ pc' = "set_is_open" /\ handle' = "open"
       \/ pc' = "finally_raise" /\ handle' = handle
    /\ UNCHANGED <<controller, static, is_open, plugged>>

\* self._is_open = True
SetIsOpen ==
    /\ pc = "set_is_open"
    /\ is_open' = TRUE
    /\ pc' = "set_raw_data_handler"
    /\ UNCHANGED <<controller, static, handle, plugged>>

\* device.set_raw_data_handler(self.sample_handler)
SetRawDataHandler ==
    /\ pc = "set_raw_data_handler"
    /\ pc' = "while"
    /\ UNCHANGED <<controller, static, is_open, handle, plugged>>

\* variant of KeepOpen: the loop watches the device only
KeepOpen_while_plugged == plugged

\* `while self._is_open and device.is_plugged()`
KeepOpen == is_open /\ plugged

\* the test of the keep-alive loop
While ==
    /\ pc = "while"
    /\ pc' = IF KeepOpen THEN "sleep" ELSE "finally"
    /\ UNCHANGED <<controller, static, is_open, handle, plugged>>

\* sleep(0.5)
Sleep ==
    /\ pc = "sleep"
    /\ pc' = "while"
    /\ UNCHANGED <<controller, static, is_open, handle, plugged>>

\* finally: device.close(); then open() returns, or the exception of
\* device.open() goes on to the caller
Finally ==
    /\ pc \in {"finally", "finally_raise"}
    /\ handle' = "closed"
    /\ pc' = IF pc = "finally" THEN "returned" ELSE "raised"
    /\ UNCHANGED <<controller, static, is_open, plugged>>

\* controller.close(), from any thread at any time
Close ==
    /\ is_open' = FALSE
    /\ UNCHANGED <<controller, static, pc, handle, plugged>>

\* the controller is unplugged
Unplug ==
    /\ handle \in {"found", "open"}
    /\ plugged
    /\ plugged' = FALSE
    /\ UNCHANGED <<controller, static, pc, is_open, handle>>

\* the device layer calls the installed handler with a report
Deliver(data) ==
    /\ pc \in {"while", "sleep"}
    /\ handle = "open"
    /\ plugged
    /\ SampleHandler(data)

\* the steps of the thread that called open()
OpenThread ==
    GetDevices \/ DeviceOpen \/ SetIsOpen \/ SetRawDataHandler \/ While \/ Sleep \/ Finally

NextOpen ==
    \/ Open
    \/ GetDevices
    \/ DeviceOpen
    \/ SetIsOpen
    \/ SetRawDataHandler
    \/ While
    \/ Sleep
    \/ Finally
    \/ Close
    \/ Unplug
    \/ \E data \in OpenReports : Deliver(data)

\* the thread in open() keeps running: each sleep ends and the loop test is
\* taken again
SpecOpen == Init /\ [][NextOpen]_vars /\ WF_vars(OpenThread)

\* open() has ended, by return or by exception
Exited == pc \in {"returned", "raised", "IOError"}

\* open() has set the open flag and close() has cleared it since
CloseRequested == pc \in {"set_raw_data_handler", "while", "sleep"} /\ ~is_open

\* C20: once open() has found the device, the device is closed on every exit
\* from open(); when close() is called after open() has set the open flag,
\* open() eventually leaves the loop, closes the device and returns; and when
\* no matching device is found open() fails with IOError, no device opened or
\* closed and the open flag not set
C20_OpenLifecycle ==
    /\ [](Exited /\ handle # "absent" => handle = "closed")
    /\ [](pc \notin {"idle", "get_devices"} /\ handle = "absent" => pc = "IOError")
    /\ [](pc = "IOError" => handle = "absent" /\ ~is_open)
    /\ (CloseRequested ~> (pc = "returned" /\ handle = "closed"))

\* close() was called during the sleep of the loop, a report already handled
C20_Witness ==
    /\ pc = "returned"
    /\ handle = "closed"
    /\ ~is_open
    /\ plugged
    /\ nReports > 0
====
